---- MODULE Spec2Model ----
(***************************************************************************)
(* The ParkingExit scenario of srunner/scenarios/parking_exit.py.          *)
(*                                                                         *)
(* Construction (__init__, _initialize_actors, _create_behavior,           *)
(* _create_test_criteria) is modelled step by step, one action per block   *)
(* of the source that ends in a call to the simulator or in a raise, so    *)
(* that the order of checks, spawns and moves is visible in the states.    *)
(* The behaviour tree the scenario builds is then ticked node by node.     *)
(*                                                                         *)
(* Lengths of the geometry (lane widths, bounding-box extents, locations)  *)
(* are integers counting quarter-centimetres; every input is a whole       *)
(* number of centimetres, so the division by 4 of the displacement is      *)
(* exact.  Driving distances are whole metres.                             *)
(***************************************************************************)
EXTENDS Integers, Sequences, FiniteSets, TLC

VARIABLES
    config,                 \* the scenario configuration: other_parameters, route
    world,                  \* the map around the trigger point
    ego_vehicles,           \* the ego vehicles handed to the constructor
    criteria_enable,        \* constructor argument
    front_vehicle_distance, \* self._front_vehicle_distance
    behind_vehicle_distance,\* self._behind_vehicle_distance
    end_distance,           \* self._end_distance
    parking_lane_side,      \* self._parking_lane_side
    parking_waypoint,       \* self._parking_waypoint
    ego_transform,          \* self._ego_transform
    other_actors,           \* self.other_actors
    route_mode,             \* self.route_mode
    front_points,           \* local of _initialize_actors
    behind_points,          \* local of _initialize_actors
    pc,                     \* position in the construction / the run
    exception,              \* the exception raised, or "none"
    base_started,           \* BasicScenario.__init__ has been entered
    calls,                  \* every request_new_actor / set_location call made, in order
    location,               \* the simulator's location of every actor
    destroyed,              \* ids of the actors removed from the simulation
    behavior,               \* the children of the sequence _create_behavior returned
    criteria,               \* the list _create_test_criteria returned
    current,                \* index of the sequence's current child
    drive_start,            \* the DriveDistance node has been initialised
    driven,                 \* metres the ego has driven since then
    outside_route_lanes_test, \* the OutsideRouteLanesTest criterion is active
    switches                \* the values the switch was set to, in order

vars == <<config, world, ego_vehicles, criteria_enable, front_vehicle_distance,
          behind_vehicle_distance, end_distance, parking_lane_side,
          parking_waypoint, ego_transform, other_actors, route_mode,
          front_points, behind_points, pc, exception, base_started, calls,
          location, destroyed, behavior, criteria, current, drive_start,
          driven, outside_route_lanes_test, switches>>

(***************************************************************************)
(* Bounds of the model.                                                    *)
(***************************************************************************)
MaxPoints == 2      \* most waypoints next() / previous() return
MaxEgos == 2        \* most ego vehicles handed to the constructor
MaxDriven == 40     \* metres after which the ego stops driving

(***************************************************************************)
(* Program constants.                                                      *)
(***************************************************************************)
DefaultFrontDistance == 20     \* m
DefaultBehindDistance == 5     \* m
EndMargin == 15                \* m added to the front distance
Metre == 100 * 4               \* quarter-centimetres in a metre
ZOffset == 5 * 4               \* 0.05 m, in quarter-centimetres

None == [none |-> TRUE]

(***************************************************************************)
(* Input domains.                                                          *)
(***************************************************************************)
FrontValues == {10}                     \* configured front_vehicle_distance
BehindValues == {8}                     \* configured behind_vehicle_distance
SideValues == {"left", "right", "centre"}
LaneWidths == {1200}                    \* 3.0 m
Extents == {360, 400}                   \* bounding_box.extent.y: 0.9 m, 1.0 m
DriveSteps == {10, 20}                  \* metres the ego advances between ticks
RightVectors == {<<0, 1, 0>>, <<-1, 0, 0>>}

Absent == [k \in {} |-> 0]

(***************************************************************************)
(* carla.Location arithmetic.                                              *)
(***************************************************************************)
LocAdd(a, b) == <<a[1] + b[1], a[2] + b[2], a[3] + b[3]>>

Neg(v) == <<-v[1], -v[2], -v[3]>>

Scale(k, v) == <<k * v[1], k * v[2], k * v[3]>>

\* The vector pointing along the lane, for a lane whose right vector is r
\* (the right vector turned a quarter turn about z).
Forward(r) == <<r[2], -r[1], 0>>

(***************************************************************************)
(* The map.  A waypoint is its lane width, its transform's location and    *)
(* the right vector of its transform.                                      *)
(***************************************************************************)
Waypoint(id, width, loc, right) ==
    [id |-> id, lane_width |-> width, location |-> loc, right_vector |-> right]

\* reference_waypoint.get_left_lane() / get_right_lane()
get_left_lane == world.left_lane

get_right_lane == world.right_lane

\* wp.next(distance): the waypoints `distance` metres ahead of wp, one per
\* lane the road continues in; each has a lane width of its own.
next(wp, distance) ==
    [k \in 1..world.n_front |->
        Waypoint("next", wp.lane_width + 80 * k,
                 LocAdd(wp.location,
                        LocAdd(Scale(distance * Metre, Forward(wp.right_vector)),
                               Scale((k - 1) * wp.lane_width, wp.right_vector))),
                 wp.right_vector)]

\* wp.previous(distance)
previous(wp, distance) ==
    [k \in 1..world.n_behind |->
        Waypoint("previous", wp.lane_width + 40 * k,
                 LocAdd(wp.location,
                        LocAdd(Scale(-(distance * Metre), Forward(wp.right_vector)),
                               Scale((k - 1) * wp.lane_width, wp.right_vector))),
                 wp.right_vector)]

(***************************************************************************)
(* __init__, lines 60-89.                                                  *)
(***************************************************************************)
\* lines 60-64
FrontVehicleDistance ==
    IF "front_vehicle_distance" \in DOMAIN config.other_parameters
    THEN config.other_parameters["front_vehicle_distance"].value
    ELSE DefaultFrontDistance

\* lines 66-70
BehindVehicleDistance ==
    IF "behind_vehicle_distance" \in DOMAIN config.other_parameters
    THEN config.other_parameters["behind_vehicle_distance"].value
    ELSE DefaultBehindDistance

\* line 72
EndDistance(front) == front + EndMargin

\* lines 74-77
ParkingLaneSide ==
    IF "parking_lane_side" \in DOMAIN config.other_parameters
    THEN config.other_parameters["parking_lane_side"].value
    ELSE "right"

\* the side is ignored: always the right lane
ParkingWaypoint_right_only(side) == get_right_lane

\* lines 82-85
ParkingWaypoint(side) ==
    IF side = "left" THEN get_left_lane ELSE get_right_lane

\* lines 56-89: the parameters are read and the parking waypoint looked up;
\* a missing parking lane raises before the base class is initialised.
Construct ==
    /\ pc = "construct"
    /\ front_vehicle_distance' = FrontVehicleDistance
    /\ behind_vehicle_distance' = BehindVehicleDistance
    /\ end_distance' = EndDistance(FrontVehicleDistance)
    /\ parking_lane_side' = ParkingLaneSide
    /\ parking_waypoint' = ParkingWaypoint(ParkingLaneSide)
    /\ IF ParkingWaypoint(ParkingLaneSide) = None
       THEN /\ pc' = "raised"
            /\ exception' = "no_parking_lane"
       ELSE /\ pc' = "base_init"
            /\ exception' = exception
    /\ UNCHANGED <<config, world, ego_vehicles, criteria_enable, ego_transform,
                   other_actors, route_mode, front_points, behind_points,
                   base_started, calls, location, destroyed, behavior,
                   criteria, current, drive_start, driven,
                   outside_route_lanes_test, switches>>

(***************************************************************************)
(* BasicScenario.__init__ (srunner/scenarios/basic_scenario.py), entered   *)
(* from line 91: it keeps the ego vehicles, starts other_actors empty,     *)
(* reads route_mode from the configuration and calls _initialize_actors,   *)
(* then _create_behavior and, when criteria are enabled,                   *)
(* _create_test_criteria.                                                  *)
(***************************************************************************)
BaseInit ==
    /\ pc = "base_init"
    /\ base_started' = TRUE
    /\ other_actors' = <<>>
    /\ route_mode' = config.route
    /\ pc' = "front_points"
    /\ UNCHANGED <<config, world, ego_vehicles, criteria_enable,
                   front_vehicle_distance, behind_vehicle_distance,
                   end_distance, parking_lane_side, parking_waypoint,
                   ego_transform, front_points, behind_points, exception,
                   calls, location, destroyed, behavior, criteria, current,
                   drive_start, driven, outside_route_lanes_test, switches>>

(***************************************************************************)
(* CarlaDataProvider.request_new_actor: the simulator either refuses       *)
(* (None) or returns a new car of some blueprint, placed at the spawn      *)
(* point.                                                                  *)
(***************************************************************************)
NewActorId == Cardinality(DOMAIN location) + 1

SpawnResults == {None} \cup {[id |-> NewActorId, extent_y |-> e] : e \in Extents}

RequestCall(actor, at) == [op |-> "request_new_actor", actor |-> actor, at |-> at]

SetLocationCall(actor, at) == [op |-> "set_location", actor |-> actor, at |-> at]

(***************************************************************************)
(* _get_displaced_transform, lines 142-156.                                *)
(***************************************************************************)
\* the actor is pushed to the middle between lane centre and lane edge
Displacement_half(actor, wp) == (wp.lane_width - actor.extent_y) \div 2

\* line 147
Displacement(actor, wp) == (wp.lane_width - actor.extent_y) \div 4

\* the vector is kept only for "right": the test of the side is not the one
\* the lane lookup makes
DisplacementVector_unless_right(wp) ==
    IF parking_lane_side = "right" THEN wp.right_vector ELSE Neg(wp.right_vector)

\* lines 148-150
DisplacementVector(wp) ==
    IF parking_lane_side = "left" THEN Neg(wp.right_vector) ELSE wp.right_vector

\* lines 147-156
GetDisplacedTransform(actor, wp) ==
    LET displacement == Displacement(actor, wp)
        displacement_vector == DisplacementVector(wp)
        new_location == LocAdd(wp.location,
                               <<displacement * displacement_vector[1],
                                 displacement * displacement_vector[2],
                                 displacement * displacement_vector[3]>>)
    IN  [new_location EXCEPT ![3] = @ + ZOffset]

(***************************************************************************)
(* _initialize_actors, lines 98-140.                                       *)
(***************************************************************************)
ActorsFrame == <<config, world, ego_vehicles, criteria_enable,
                 front_vehicle_distance, behind_vehicle_distance,
                 end_distance, parking_lane_side, parking_waypoint,
                 route_mode, base_started, destroyed, behavior, criteria,
                 current, drive_start, driven, outside_route_lanes_test,
                 switches>>

\* lines 103-107
FrontPoints ==
    /\ pc = "front_points"
    /\ front_points' = next(parking_waypoint, front_vehicle_distance)
    /\ IF next(parking_waypoint, front_vehicle_distance) = <<>>
       THEN /\ pc' = "raised"
            /\ exception' = "no_front_position"
       ELSE /\ pc' = "spawn_front"
            /\ exception' = exception
    /\ UNCHANGED <<ActorsFrame, ego_transform, other_actors, behind_points,
                   calls, location>>

\* a refused spawn is requested again instead of raising
SpawnFront_retry ==
    /\ pc = "spawn_front"
    /\ Len(calls) < 3
    /\ \E actor_front \in SpawnResults :
        /\ calls' = Append(calls, RequestCall(actor_front, front_points[1].location))
        /\ IF actor_front = None
           THEN /\ pc' = pc
                /\ UNCHANGED <<other_actors, location>>
           ELSE /\ pc' = "move_front"
                /\ other_actors' = Append(other_actors, actor_front)
                /\ location' = location @@ (actor_front.id :> front_points[1].location)
    /\ UNCHANGED <<ActorsFrame, ego_transform, front_points, behind_points, exception>>

\* lines 109-114
SpawnFront ==
    /\ pc = "spawn_front"
    /\ \E actor_front \in SpawnResults :
        /\ calls' = Append(calls, RequestCall(actor_front, front_points[1].location))
        /\ IF actor_front = None
           THEN /\ pc' = "raised"
                /\ exception' = "no_front_actor"
                /\ UNCHANGED <<other_actors, location>>
           ELSE /\ pc' = "move_front"
                /\ exception' = exception
                /\ other_actors' = Append(other_actors, actor_front)
                /\ location' = location @@ (actor_front.id :> front_points[1].location)
    /\ UNCHANGED <<ActorsFrame, ego_transform, front_points, behind_points>>

\* lines 117-118
MoveFront ==
    /\ pc = "move_front"
    /\ LET actor_front == other_actors[Len(other_actors)]
           side_transform == GetDisplacedTransform(actor_front, front_points[1])
       IN  /\ calls' = Append(calls, SetLocationCall(actor_front, side_transform))
           /\ location' = [location EXCEPT ![actor_front.id] = side_transform]
    /\ pc' = "behind_points"
    /\ UNCHANGED <<ActorsFrame, ego_transform, other_actors, front_points,
                   behind_points, exception>>

\* lines 121-125
BehindPoints ==
    /\ pc = "behind_points"
    /\ behind_points' = previous(parking_waypoint, behind_vehicle_distance)
    /\ IF previous(parking_waypoint, behind_vehicle_distance) = <<>>
       THEN /\ pc' = "raised"
            /\ exception' = "no_behind_position"
       ELSE /\ pc' = "spawn_behind"
            /\ exception' = exception
    /\ UNCHANGED <<ActorsFrame, ego_transform, other_actors, front_points,
                   calls, location>>

\* lines 127-132
SpawnBehind ==
    /\ pc = "spawn_behind"
    /\ \E actor_behind \in SpawnResults :
        /\ calls' = Append(calls, RequestCall(actor_behind, behind_points[1].location))
        /\ IF actor_behind = None
           THEN /\ pc' = "raised"
                /\ exception' = "no_behind_actor"
                /\ UNCHANGED <<other_actors, location>>
           ELSE /\ pc' = "move_behind"
                /\ exception' = exception
                /\ other_actors' = Append(other_actors, actor_behind)
                /\ location' = location @@ (actor_behind.id :> behind_points[1].location)
    /\ UNCHANGED <<ActorsFrame, ego_transform, front_points, behind_points>>

\* the behind vehicle is displaced from the front vehicle's waypoint
MoveBehind_front_waypoint ==
    /\ pc = "move_behind"
    /\ LET actor_behind == other_actors[Len(other_actors)]
           side_transform == GetDisplacedTransform(actor_behind, front_points[1])
       IN  /\ calls' = Append(calls, SetLocationCall(actor_behind, side_transform))
           /\ location' = [location EXCEPT ![actor_behind.id] = side_transform]
    /\ pc' = "move_ego"
    /\ UNCHANGED <<ActorsFrame, ego_transform, other_actors, front_points,
                   behind_points, exception>>

\* lines 135-136
MoveBehind ==
    /\ pc = "move_behind"
    /\ LET actor_behind == other_actors[Len(other_actors)]
           side_transform == GetDisplacedTransform(actor_behind, behind_points[1])
       IN  /\ calls' = Append(calls, SetLocationCall(actor_behind, side_transform))
           /\ location' = [location EXCEPT ![actor_behind.id] = side_transform]
    /\ pc' = "move_ego"
    /\ UNCHANGED <<ActorsFrame, ego_transform, other_actors, front_points,
                   behind_points, exception>>

\* lines 139-140
MoveEgo ==
    /\ pc = "move_ego"
    /\ ego_transform' = GetDisplacedTransform(ego_vehicles[1], parking_waypoint)
    /\ calls' = Append(calls, SetLocationCall(ego_vehicles[1], ego_transform'))
    /\ location' = [location EXCEPT ![ego_vehicles[1].id] = ego_transform']
    /\ pc' = "create_behavior"
    /\ UNCHANGED <<ActorsFrame, other_actors, front_points, behind_points,
                   exception>>

(***************************************************************************)
(* _create_behavior, lines 158-184.  A node of the tree is a record.       *)
(***************************************************************************)
SwitchOutsideRouteLanesTest(activate) ==
    [type |-> "SwitchOutsideRouteLanesTest", activate |-> activate]

DriveDistance(actor, distance) ==
    [type |-> "DriveDistance", actor |-> actor, distance |-> distance]

ActorDestroy(actor) == [type |-> "ActorDestroy", actor |-> actor]

Sequence(children) == [type |-> "Sequence", children |-> children]

Parallel(policy, children) ==
    [type |-> "Parallel", policy |-> policy, children |-> children]

\* the test is re-activated before the ego's exit is awaited
CreateBehaviorTree_early_switch ==
    LET end_condition == Sequence(<<DriveDistance(ego_vehicles[1], end_distance)>>)
        root == Parallel("SUCCESS_ON_ONE", <<end_condition>>)
    IN  Sequence(<<SwitchOutsideRouteLanesTest(FALSE),
                   SwitchOutsideRouteLanesTest(TRUE),
                   root>>
                 \o [i \in 1..Len(other_actors) |-> ActorDestroy(other_actors[i])])

\* the blocking vehicles are destroyed as soon as the scenario is triggered
CreateBehaviorTree_destroy_first ==
    LET end_condition == Sequence(<<DriveDistance(ego_vehicles[1], end_distance)>>)
        root == Parallel("SUCCESS_ON_ONE", <<end_condition>>)
    IN  Sequence(<<SwitchOutsideRouteLanesTest(FALSE)>>
                 \o [i \in 1..Len(other_actors) |-> ActorDestroy(other_actors[i])]
                 \o <<root, SwitchOutsideRouteLanesTest(TRUE)>>)

\* lines 165-184: the sequence returned
CreateBehaviorTree ==
    LET end_condition == Sequence(<<DriveDistance(ego_vehicles[1], end_distance)>>)
        root == Parallel("SUCCESS_ON_ONE", <<end_condition>>)
    IN  Sequence(<<SwitchOutsideRouteLanesTest(FALSE),
                   root,
                   SwitchOutsideRouteLanesTest(TRUE)>>
                 \o [i \in 1..Len(other_actors) |-> ActorDestroy(other_actors[i])])

\* _create_behavior is called once the actors are initialised
CreateBehavior ==
    /\ pc = "create_behavior"
    /\ behavior' = CreateBehaviorTree
    /\ pc' = IF criteria_enable THEN "create_test_criteria" ELSE "running"
    /\ UNCHANGED <<config, world, ego_vehicles, criteria_enable,
                   front_vehicle_distance, behind_vehicle_distance,
                   end_distance, parking_lane_side, parking_waypoint,
                   ego_transform, other_actors, route_mode, front_points,
                   behind_points, exception, base_started, calls, location,
                   destroyed, criteria, current, drive_start, driven,
                   outside_route_lanes_test, switches>>

(***************************************************************************)
(* _create_test_criteria, lines 186-194.                                   *)
(***************************************************************************)
CollisionTest(actor) == [type |-> "CollisionTest", actor |-> actor]

\* the route-mode test is missing
CreateTestCriteriaList_always == <<CollisionTest(ego_vehicles[1])>>

\* lines 191-194
CreateTestCriteriaList ==
    IF route_mode THEN <<>> ELSE <<CollisionTest(ego_vehicles[1])>>

CreateTestCriteria ==
    /\ pc = "create_test_criteria"
    /\ criteria' = CreateTestCriteriaList
    /\ pc' = "running"
    /\ UNCHANGED <<config, world, ego_vehicles, criteria_enable,
                   front_vehicle_distance, behind_vehicle_distance,
                   end_distance, parking_lane_side, parking_waypoint,
                   ego_transform, other_actors, route_mode, front_points,
                   behind_points, exception, base_started, calls, location,
                   destroyed, behavior, current, drive_start, driven,
                   outside_route_lanes_test, switches>>

(***************************************************************************)
(* The run: the scenario engine ticks the sequence.  A sequence ticks its  *)
(* current child and moves to the next one when the child succeeds; it     *)
(* succeeds after its last child.  No node of this tree fails.             *)
(***************************************************************************)
RunFrame == <<config, world, ego_vehicles, criteria_enable,
              front_vehicle_distance, behind_vehicle_distance, end_distance,
              parking_lane_side, parking_waypoint, ego_transform,
              other_actors, route_mode, front_points, behind_points,
              exception, base_started, calls, location, behavior, criteria>>

NotStarted == 0 - 1

\* metres the DriveDistance node has measured
Measured == IF drive_start = NotStarted THEN 0 ELSE driven - drive_start

RECURSIVE Status(_)
\* the status a condition node or a composite of condition nodes returns
Status(node) ==
    CASE node.type = "DriveDistance" ->
            IF Measured > node.distance THEN "SUCCESS" ELSE "RUNNING"
      [] node.type = "Sequence" ->
            IF \A i \in 1..Len(node.children) : Status(node.children[i]) = "SUCCESS"
            THEN "SUCCESS" ELSE "RUNNING"
      [] node.type = "Parallel" ->
            IF node.policy = "SUCCESS_ON_ONE"
            THEN IF \E i \in 1..Len(node.children) : Status(node.children[i]) = "SUCCESS"
                 THEN "SUCCESS" ELSE "RUNNING"
            ELSE IF \A i \in 1..Len(node.children) : Status(node.children[i]) = "SUCCESS"
                 THEN "SUCCESS" ELSE "RUNNING"

CurrentNode == behavior.children[current]

Ticking == pc = "running" /\ current <= Len(behavior.children)

\* the ego drives on
EgoDrive ==
    /\ pc = "running"
    /\ \E d \in DriveSteps :
        /\ driven + d <= MaxDriven
        /\ driven' = driven + d
    /\ UNCHANGED <<RunFrame, pc, destroyed, current, drive_start,
                   outside_route_lanes_test, switches>>

\* SwitchOutsideRouteLanesTest.update: sets the switch and succeeds
TickSwitch ==
    /\ Ticking
    /\ CurrentNode.type = "SwitchOutsideRouteLanesTest"
    /\ outside_route_lanes_test' = CurrentNode.activate
    /\ switches' = Append(switches, CurrentNode.activate)
    /\ current' = current + 1
    /\ UNCHANGED <<RunFrame, pc, destroyed, drive_start, driven>>

\* the parallel with the DriveDistance condition: initialised at its first
\* tick, it succeeds once the ego has driven more than the distance
TickCondition ==
    /\ Ticking
    /\ CurrentNode.type \in {"Parallel", "Sequence", "DriveDistance"}
    /\ IF drive_start = NotStarted
       THEN /\ drive_start' = driven
            /\ current' = current
       ELSE /\ drive_start' = drive_start
            /\ current' = IF Status(CurrentNode) = "SUCCESS"
                          THEN current + 1 ELSE current
    /\ UNCHANGED <<RunFrame, pc, destroyed, driven, outside_route_lanes_test,
                   switches>>

\* ActorDestroy.update: removes the actor and succeeds
TickActorDestroy ==
    /\ Ticking
    /\ CurrentNode.type = "ActorDestroy"
    /\ destroyed' = destroyed \cup {CurrentNode.actor.id}
    /\ current' = current + 1
    /\ UNCHANGED <<RunFrame, pc, drive_start, driven, outside_route_lanes_test,
                   switches>>

\* the sequence has run its last child: it succeeds and the scenario ends
Finish ==
    /\ pc = "running"
    /\ current > Len(behavior.children)
    /\ pc' = "done"
    /\ UNCHANGED <<RunFrame, destroyed, current, drive_start, driven,
                   outside_route_lanes_test, switches>>

\* __del__, lines 196-200: remove_all_actors() removes the other actors
Del ==
    /\ pc = "done"
    /\ destroyed' = destroyed \cup {other_actors[i].id : i \in 1..Len(other_actors)}
    /\ pc' = "deleted"
    /\ UNCHANGED <<RunFrame, current, drive_start, driven,
                   outside_route_lanes_test, switches>>

(***************************************************************************)
(* The state before the constructor runs.                                  *)
(***************************************************************************)
FrontParams ==
    {Absent} \cup {"front_vehicle_distance" :> [value |-> v] : v \in FrontValues}

BehindParams ==
    {Absent} \cup {"behind_vehicle_distance" :> [value |-> v] : v \in BehindValues}

SideParams ==
    {Absent} \cup {"parking_lane_side" :> [value |-> v] : v \in SideValues}

Configs ==
    {[other_parameters |-> f @@ b @@ s, route |-> r] :
        f \in FrontParams, b \in BehindParams, s \in SideParams, r \in BOOLEAN}

Egos(n) == [k \in 1..n |-> [id |-> k, extent_y |-> 340 + 40 * k]]

Init ==
    /\ config \in Configs
    \* the lanes beside the reference waypoint, which lies at the origin
    /\ \E w \in LaneWidths, rv \in RightVectors :
        world \in {[left_lane |-> l, right_lane |-> r, n_front |-> nf, n_behind |-> nb] :
                    l \in {None, Waypoint("left", w, Scale(-1400, rv), rv)},
                    r \in {None, Waypoint("right", w + 200, Scale(1400, rv), rv)},
                    nf \in 0..MaxPoints, nb \in 0..MaxPoints}
    /\ \E n \in 1..MaxEgos : ego_vehicles = Egos(n)
    /\ criteria_enable \in BOOLEAN
    /\ front_vehicle_distance = 0
    /\ behind_vehicle_distance = 0
    /\ end_distance = 0
    /\ parking_lane_side = ""
    /\ parking_waypoint = None
    /\ ego_transform = <<0, 0, 0>>
    /\ other_actors = <<>>
    /\ route_mode = FALSE
    /\ front_points = <<>>
    /\ behind_points = <<>>
    /\ pc = "construct"
    /\ exception = "none"
    /\ base_started = FALSE
    /\ calls = <<>>
    /\ location = [k \in DOMAIN ego_vehicles |-> <<0, 0, 0>>]
    /\ destroyed = {}
    /\ behavior = Sequence(<<>>)
    /\ criteria = <<>>
    /\ current = 1
    /\ drive_start = NotStarted
    /\ driven = 0
    /\ outside_route_lanes_test = TRUE
    /\ switches = <<>>

Next ==
    \/ Construct
    \/ BaseInit
    \/ FrontPoints
    \/ SpawnFront
    \/ MoveFront
    \/ BehindPoints
    \/ SpawnBehind
    \/ MoveBehind
    \/ MoveEgo
    \/ CreateBehavior
    \/ CreateTestCriteria
    \/ EgoDrive
    \/ TickSwitch
    \/ TickCondition
    \/ TickActorDestroy
    \/ Finish
    \/ Del

Spec == Init /\ [][Next]_vars

(***************************************************************************)
(* Vocabulary of the properties.                                           *)
(***************************************************************************)
Constructed == pc \in {"create_behavior", "create_test_criteria", "running", "done", "deleted"}

Requests == SelectSeq(calls, LAMBDA c : c.op = "request_new_actor")

Moves == SelectSeq(calls, LAMBDA c : c.op = "set_location")

Placed(actor) == \E i \in 1..Len(Moves) : Moves[i].actor = actor

\* the lane on the side the configuration asks for is missing
MissingLane ==
    IF "parking_lane_side" \in DOMAIN config.other_parameters
       /\ config.other_parameters["parking_lane_side"].value = "left"
    THEN world.left_lane = None
    ELSE world.right_lane = None

\* every actor placed so far, with the waypoint it was placed at
Placements ==
    {pl \in (IF Len(other_actors) >= 1
             THEN {<<other_actors[1], front_points[1]>>} ELSE {})
            \cup (IF Len(other_actors) >= 2
                  THEN {<<other_actors[2], behind_points[1]>>} ELSE {})
            \cup {<<ego_vehicles[1], parking_waypoint>>} : Placed(pl[1])}

\* carla.BoundingBox.extent is half the size of the box on each axis
Width(actor) == 2 * actor.extent_y

\* where an actor ends when displaced sideways by d from waypoint wp
Sideways(wp, d) ==
    LocAdd(wp.location,
           LocAdd(Scale(d, IF parking_lane_side = "left"
                           THEN Neg(wp.right_vector) ELSE wp.right_vector),
                  <<0, 0, ZOffset>>))

----
\* C1: a missing parking lane on the requested side raises, and it raises
\* before any spawn request, any move of an actor and the base initialisation.
C1_MissingLaneRaisesEarly ==
    /\ (pc # "construct" /\ MissingLane) =>
            (pc = "raised" /\ exception = "no_parking_lane")
    /\ exception = "no_parking_lane" =>
            /\ MissingLane
            /\ calls = <<>>
            /\ ~base_started
            /\ other_actors = <<>>
            /\ \A k \in DOMAIN location : location[k] = <<0, 0, 0>>

C1_Witness ==
    /\ exception = "no_parking_lane"
    /\ parking_lane_side = "left"
    /\ world.right_lane # None

----
\* C2: each missing-data condition of _initialize_actors raises, nothing is
\* retried and nothing is called after a raise: an empty waypoint list raises
\* before the spawn of that vehicle is requested, a refused spawn raises at
\* once, and there is at most one spawn request per blocking vehicle.
C2_ActorChecksRaiseOnce ==
    LET front == next(parking_waypoint, front_vehicle_distance)
        behind == previous(parking_waypoint, behind_vehicle_distance)
    IN
    /\ (base_started /\ pc # "front_points" /\ world.n_front = 0) =>
            exception = "no_front_position"
    /\ exception = "no_front_position" =>
            (pc = "raised" /\ world.n_front = 0 /\ calls = <<>>)
    /\ exception = "no_front_actor" =>
            (pc = "raised" /\ calls = <<RequestCall(None, front[1].location)>>)
    /\ (Len(other_actors) >= 1 /\ pc \notin {"move_front", "behind_points"}
            /\ world.n_behind = 0) =>
            exception = "no_behind_position"
    /\ exception = "no_behind_position" =>
            /\ pc = "raised" /\ world.n_behind = 0
            /\ Len(Requests) = 1 /\ Len(calls) = 2
    /\ exception = "no_behind_actor" =>
            /\ pc = "raised"
            /\ Len(Requests) = 2 /\ Len(calls) = 3
            /\ calls[3] = RequestCall(None, behind[1].location)
    /\ \A i \in 1..Len(calls) :
            (calls[i].op = "request_new_actor" /\ calls[i].actor = None) =>
                (pc = "raised" /\ i = Len(calls))
    /\ Len(Requests) <= 2
    /\ \A i, j \in 1..Len(Requests) : Requests[i].at = Requests[j].at => i = j
    /\ pc = "raised" => Len(Moves) <= 1 /\ ~Placed(ego_vehicles[1])

C2_Witness ==
    /\ exception = "no_behind_actor"
    /\ Len(Moves) = 1

----
\* C5: when _initialize_actors completes, other_actors holds exactly the two
\* vehicles spawned, first the one at the first waypoint front_vehicle_distance
\* ahead and then the one at the first waypoint behind_vehicle_distance behind,
\* each moved to the displaced location of its own spawn waypoint, and the
\* first ego vehicle is at the displaced location of the parking waypoint.
C5_TwoBlockingVehicles ==
    Constructed =>
        LET front == next(parking_waypoint, front_vehicle_distance)[1]
            behind == previous(parking_waypoint, behind_vehicle_distance)[1]
            ego == ego_vehicles[1]
        IN  /\ Len(other_actors) = 2
            /\ other_actors[1] # other_actors[2]
            /\ calls = <<RequestCall(other_actors[1], front.location),
                         SetLocationCall(other_actors[1],
                             Sideways(front, Displacement(other_actors[1], front))),
                         RequestCall(other_actors[2], behind.location),
                         SetLocationCall(other_actors[2],
                             Sideways(behind, Displacement(other_actors[2], behind))),
                         SetLocationCall(ego,
                             Sideways(parking_waypoint,
                                      Displacement(ego, parking_waypoint)))>>
            /\ \A i \in 1..Len(Moves) : location[Moves[i].actor.id] = Moves[i].at
            /\ ego_transform = location[ego.id]
            /\ \A k \in 2..Len(ego_vehicles) : location[ego_vehicles[k].id] = <<0, 0, 0>>

C5_Witness ==
    /\ pc = "create_behavior"
    /\ world.n_front = 2
    /\ world.n_behind = 2
    /\ other_actors[1].extent_y # other_actors[2].extent_y

----
\* C6: the test criteria are empty in route mode and otherwise exactly one
\* CollisionTest, on the first ego vehicle; none is on a blocking vehicle.
C6_TestCriteria ==
    (criteria_enable /\ pc \in {"running", "done", "deleted"}) =>
        /\ route_mode = config.route
        /\ route_mode => criteria = <<>>
        /\ ~route_mode =>
            /\ Len(criteria) = 1
            /\ criteria[1].type = "CollisionTest"
            /\ criteria[1].actor = ego_vehicles[1]
        /\ \A i \in 1..Len(criteria), j \in 1..Len(other_actors) :
                criteria[i].actor # other_actors[j]

C6_Witness ==
    /\ criteria_enable /\ pc = "running"
    /\ ~route_mode
    /\ Len(ego_vehicles) = 2
    /\ Len(criteria) = 1

----
\* C4 as stated: every placed actor is displaced by
\* (lane_width - actor_width) / 4, actor_width being the actor's width.
C4_DisplacementUsesWidth ==
    \A pl \in Placements :
        location[pl[1].id] = Sideways(pl[2], (pl[2].lane_width - Width(pl[1])) \div 4)

\* C4, amended: every placed actor (front vehicle, behind vehicle, ego) is
\* displaced by (lane_width - extent_y) / 4, lane_width being the width of
\* the waypoint it is placed at and extent_y the y extent of its bounding box,
\* which is half its width.
C4_DisplacementUsesExtent ==
    \A pl \in Placements :
        location[pl[1].id] = Sideways(pl[2], (pl[2].lane_width - pl[1].extent_y) \div 4)

C4_Witness ==
    /\ Cardinality(Placements) = 3
    /\ Cardinality({pl[2].lane_width : pl \in Placements}) = 3
    /\ Cardinality({pl[1].extent_y : pl \in Placements}) = 3

----
\* C8: the lane lookup and the displacement use the same side: for "left"
\* the parking waypoint is the left lane and actors are displaced against the
\* right vector; for any other value, or none, it is the right lane and they
\* are displaced along the right vector; the location is raised by 0.05 in z.
C8_SidesAgree ==
    LET asked == IF "parking_lane_side" \in DOMAIN config.other_parameters
                 THEN config.other_parameters["parking_lane_side"].value
                 ELSE "right"
        Dot(a, b) == a[1] * b[1] + a[2] * b[2] + a[3] * b[3]
    IN  pc \notin {"construct", "raised"} =>
            /\ parking_lane_side = asked
            /\ asked = "left" => parking_waypoint = world.left_lane
            /\ asked # "left" => parking_waypoint = world.right_lane
            /\ \A pl \in Placements :
                LET moved == LocAdd(location[pl[1].id],
                                    Neg(LocAdd(pl[2].location, <<0, 0, ZOffset>>)))
                    along == Dot(moved, pl[2].right_vector)
                IN  /\ moved = Scale(along, pl[2].right_vector)
                    /\ asked = "left" => along < 0
                    /\ asked # "left" => along > 0

C8_Witness ==
    /\ parking_lane_side = "centre"
    /\ world.left_lane # None
    /\ Cardinality(Placements) = 3

----
\* C3: the sequence first deactivates OutsideRouteLanesTest, re-activates it
\* only once the ego has driven at least end_distance, which is
\* front_vehicle_distance + 15 (35 by default), and ends only after the
\* re-activation has run.
C3_SwitchAroundExit ==
    /\ pc # "construct" =>
            /\ end_distance = front_vehicle_distance + 15
            /\ "front_vehicle_distance" \notin DOMAIN config.other_parameters =>
                    end_distance = 35
    /\ pc \in {"running", "done", "deleted"} =>
            /\ (current > 1 \/ drive_start # NotStarted \/ destroyed # {}) =>
                    (Len(switches) >= 1 /\ switches[1] = FALSE)
            /\ \A i \in 1..Len(switches) :
                    switches[i] => (i > 1 /\ Measured >= end_distance)
            /\ outside_route_lanes_test = (Len(switches) = 0 \/ switches[Len(switches)])
    /\ pc \in {"done", "deleted"} =>
            (switches = <<FALSE, TRUE>> /\ outside_route_lanes_test)

C3_Witness ==
    /\ pc = "done"
    /\ end_distance = 35
    /\ switches = <<FALSE, TRUE>>
    /\ Measured > 35

----
====
